---- MODULE Spec2Model ----
(***************************************************************************)
(* A model of pycses: the time coercion helpers of cses/utils.py, the week *)
(* enablement queries of cses/structures.py and the parser / generator of  *)
(* cses/__init__.py.                                                       *)
(*                                                                         *)
(* Python values are modelled as follows.                                  *)
(*   - a str is a sequence of characters, each character a one-token TLA+  *)
(*     string; "U+0663" stands for the single character ARABIC-INDIC DIGIT *)
(*     THREE, a decimal digit for re's \d and for int();                   *)
(*   - a scalar of the structured tree is a tagged record: PyStr(s),     *)
(*     PyInt(n) or None;                                                   *)
(*   - a dict is a function from its keys; d.get(k, default) is Get;       *)
(*   - a datetime.time is a record [hour, minute, second];                 *)
(*   - a datetime.date is its proleptic ordinal (date.toordinal()), so     *)
(*     that (day - start_day).days is the difference of two ordinals;      *)
(*   - a call either returns a value, Return(v), or raises, Raise(...).    *)
(***************************************************************************)
EXTENDS Integers, Sequences, FiniteSets, TLC

VARIABLES
    pc,          \* the step the driver of the library is at
    any_time,    \* ensure_time: its argument
    res,         \* ensure_time: what the call returned or raised
    dumped,      \* serialize_time: the scalar handed to the dumper
    start_day,   \* week_num / is_enabled_on_day: the first day of week 1
    day,         \* week_num / is_enabled_on_day: the queried day
    schedule,    \* the SingleDaySchedule queried (weeks, enable_day)
    week,        \* the last week index computed or queried
    enabled,     \* the last answer of is_enabled_on_week / is_enabled_on_day
    data,        \* CSESParser.data: the tree the loader produced
    parser,      \* CSESParser: version, subjects, schedules
    generator,   \* CSESGenerator: version, subjects, schedules
    cses_data,   \* what generate_cses_data returned
    parser2      \* the CSESParser built from cses_data

vars == <<pc, any_time, res, dumped, start_day, day, schedule, week, enabled,
          data, parser, generator, cses_data, parser2>>

timeVars == <<any_time, res, dumped>>
weekVars == <<start_day, day, schedule, week, enabled>>
docVars  == <<data, parser, generator, cses_data, parser2>>

----------------------------------------------------------------------------
(* Python values *)

None == [kind |-> "none"]
PyStr(s) == [kind |-> "str", val |-> s]
PyInt(n) == [kind |-> "int", val |-> n]
PyTime(t) == [kind |-> "time", val |-> t]
Other == [kind |-> "other"]

Return(v) == [tag |-> "return", val |-> v]
Raise(exc, msg) == [tag |-> "raise", exc |-> exc, msg |-> msg]
NotCalled == [tag |-> "not_called"]

SeqsUpTo(S, n) == UNION {[1..m -> S] : m \in 0..n}

----------------------------------------------------------------------------
(* Time coercion: cses/utils.py *)

AsciiDigits == {"0", "1", "2", "3", "4", "5", "6", "7", "8", "9"}
UnicodeDigits == {"U+0663"}

\* re's \d on a str pattern: any Unicode decimal digit.
IsDigit(c) == c \in AsciiDigits \cup UnicodeDigits

\* The value int() gives a decimal digit.
DigitVal(c) ==
    CASE c = "0" -> 0 [] c = "1" -> 1 [] c = "2" -> 2 [] c = "3" -> 3
      [] c = "4" -> 4 [] c = "5" -> 5 [] c = "6" -> 6 [] c = "7" -> 7
      [] c = "8" -> 8 [] c = "9" -> 9 [] c = "U+0663" -> 3

\* int() of a two-character group of the pattern.
int(g) == DigitVal(g[1]) * 10 + DigitVal(g[2])

\* The character "%02d"-style formatting (strftime) emits for one digit.
DigitChar(d) ==
    CASE d = 0 -> "0" [] d = 1 -> "1" [] d = 2 -> "2" [] d = 3 -> "3"
      [] d = 4 -> "4" [] d = 5 -> "5" [] d = 6 -> "6" [] d = 7 -> "7"
      [] d = 8 -> "8" [] d = 9 -> "9"

\* ([01]\d|2[0-3]) at the start of s.
MatchHour(s) ==
    \/ s[1] \in {"0", "1"} /\ IsDigit(s[2])
    \/ s[1] = "2" /\ s[2] \in {"0", "1", "2", "3"}

\* ([0-5]\d) at position i of s.
MatchSixty(s, i) ==
    /\ s[i] \in {"0", "1", "2", "3", "4", "5"}
    /\ IsDigit(s[i + 1])

\* pattern_for_str.match(s): the pattern is anchored at the start of s only;
\* what follows the eighth character is not looked at.
pattern_for_str_match(s) ==
    /\ Len(s) >= 8
    /\ MatchHour(s)
    /\ s[3] = ":"
    /\ MatchSixty(s, 4)
    /\ s[6] = ":"
    /\ MatchSixty(s, 7)

\* matched.groups()
groups(s) == <<SubSeq(s, 1, 2), SubSeq(s, 4, 5), SubSeq(s, 7, 8)>>

\* datetime.time(hour, minute, second): the constructor checks each field.
datetime_time(h, m, s) ==
    IF ~(0 <= h /\ h <= 23) THEN Raise("ValueError", "hour must be in 0..23")
    ELSE IF ~(0 <= m /\ m <= 59) THEN Raise("ValueError", "minute must be in 0..59")
    ELSE IF ~(0 <= s /\ s <= 59) THEN Raise("ValueError", "second must be in 0..59")
    ELSE Return([hour |-> h, minute |-> m, second |-> s])

\* The int branch with the hour wrapped into a day: n >= 86400 would pass.
ensure_time_int_wrong(n) ==
    datetime_time((n \div 3600) % 24, (n \div 60) % 60, n % 60)

\* The int branch of ensure_time. // and % are floor division and its
\* remainder, as \div and % are.
ensure_time_int(n) ==
    datetime_time(n \div 3600, (n \div 60) % 60, n % 60)

ensure_time(t) ==
    CASE t.kind = "str" ->
            IF ~pattern_for_str_match(t.val)
            THEN Raise("ValueError", "Invalid time format for CSES format")
            ELSE LET g == groups(t.val)
                 IN  datetime_time(int(g[1]), int(g[2]), int(g[3]))
      [] t.kind = "int" -> ensure_time_int(t.val)
      [] t.kind = "time" -> Return(t.val)
      [] OTHER -> Raise("ValueError", "Invalid time value for CSES format")

TwoDigits(n) == <<DigitChar(n \div 10), DigitChar(n % 10)>>

\* %-H in place of %H: the hour without its leading zero.
strftime_HMS_wrong(t) ==
    (IF t.hour < 10 THEN <<DigitChar(t.hour)>> ELSE TwoDigits(t.hour))
        \o <<":">> \o TwoDigits(t.minute) \o <<":">> \o TwoDigits(t.second)

\* any_time.strftime("%H:%M:%S")
strftime_HMS(t) ==
    TwoDigits(t.hour) \o <<":">> \o TwoDigits(t.minute) \o <<":">> \o TwoDigits(t.second)

\* serialize_time: the str scalar the dumper is given.
serialize_time(t) == PyStr(strftime_HMS(t))

(* The arguments ensure_time is called with. *)

MaxSuffix == 1
MaxNegSeconds == 3700
MaxExtraSeconds == 3700

\* Eight characters, each position drawn from characters that make the
\* pattern match and characters that make it fail.
BodyStrings ==
    {<<a, b, p, c, d, q, e, f>> :
        a \in {"0", "1", "2", "3"}, b \in {"0", "3", "4", "9", "U+0663"},
        p \in {":", "-"},
        c \in {"0", "5", "6"}, d \in {"0", "9"},
        q \in {":"},
        e \in {"0", "5", "6"}, f \in {"0", "9", "x"}}

SuffixChars == {"0", "x", ":"}

StrInputs ==
    {SubSeq(s, 1, k) : s \in BodyStrings, k \in 0..7}
        \cup {s \o t : s \in BodyStrings, t \in SeqsUpTo(SuffixChars, MaxSuffix)}

IntInputs == (0 - MaxNegSeconds)..(24 * 3600 - 1 + MaxExtraSeconds)

TimeValueInputs ==
    [hour : {0, 23}, minute : {0, 59}, second : {0, 59}]

\* any_time is a str, an int, a datetime.time or something else.
IsTimeInput(x) ==
    \/ \E s \in StrInputs : x = PyStr(s)
    \/ \E n \in IntInputs : x = PyInt(n)
    \/ \E t \in TimeValueInputs : x = PyTime(t)
    \/ x \in {None, Other}

WeekIdle ==
    /\ start_day = 1 /\ day = 1 /\ week = 0 /\ enabled = FALSE
    /\ schedule = [weeks |-> "all", enable_day |-> 1]

DocIdle ==
    /\ data = None /\ parser = NotCalled /\ generator = NotCalled
    /\ cses_data = NotCalled /\ parser2 = NotCalled

InitTime ==
    /\ pc = "time_start"
    /\ IsTimeInput(any_time)
    /\ res = NotCalled
    /\ dumped = NotCalled
    /\ WeekIdle
    /\ DocIdle

\* res = ensure_time(any_time)
EnsureTime ==
    /\ pc = "time_start"
    /\ res' = ensure_time(any_time)
    /\ pc' = "coerced"
    /\ UNCHANGED <<any_time, dumped, weekVars, docVars>>

\* The dumper's hook: serialize_time(dumper, res), for a res that is a time.
SerializeTime ==
    /\ pc = "coerced"
    /\ res.tag = "return"
    /\ dumped' = serialize_time(res.val)
    /\ pc' = "dumped"
    /\ UNCHANGED <<any_time, res, weekVars, docVars>>

NextTime == EnsureTime \/ SerializeTime

SpecTime == InitTime /\ [][NextTime]_vars

----------------------------------------------------------------------------
(* Claims about time coercion *)

\* The form HH:MM:SS, HH in 00..23 and MM, SS in 00..59, as the
\* specification words it: eight characters, ASCII digits and colons.
IsHMS(s) ==
    /\ Len(s) = 8
    /\ \A i \in {1, 2, 4, 5, 7, 8} : s[i] \in AsciiDigits
    /\ s[3] = ":" /\ s[6] = ":"
    /\ int(SubSeq(s, 1, 2)) \in 0..23
    /\ int(SubSeq(s, 4, 5)) \in 0..59
    /\ int(SubSeq(s, 7, 8)) \in 0..59

\* C1: coercing a string returns a time if and only if the whole string has
\* the form HH:MM:SS; every other string raises and yields no time value.
C1_StringAcceptedIffExactForm ==
    (pc /= "time_start" /\ any_time.kind = "str") =>
        /\ (res.tag = "return") <=> IsHMS(any_time.val)
        /\ (res.tag = "raise") <=> ~IsHMS(any_time.val)

\* C2: for every valid string s of the form HH:MM:SS, serializing the time
\* that coercing s returned gives back s; and what is serialized always has
\* the zero-padded form HH:MM:SS.
C2_FormatCoerceRoundTrip ==
    pc = "dumped" =>
        /\ dumped.kind = "str" /\ IsHMS(dumped.val)
        /\ (any_time.kind = "str" /\ IsHMS(any_time.val)) => dumped = any_time

C2_Witness ==
    /\ pc = "dumped"
    /\ any_time.kind = "str" /\ IsHMS(any_time.val)
    /\ any_time.val[1] = "0" /\ any_time.val[2] = "9"
    /\ dumped = any_time

\* C10: coercing an integer n returns a time if and only if 0 <= n <= 86399,
\* and then hours = n div 3600, minutes = (n div 60) mod 60, seconds =
\* n mod 60; for every other n the call raises and returns no time.
C10_IntAcceptedIffSecondOfDay ==
    (pc /= "time_start" /\ any_time.kind = "int") =>
        LET n == any_time.val
        IN  /\ (res.tag = "return") <=> (0 <= n /\ n <= 86399)
            /\ (res.tag = "raise") <=> (n < 0 \/ n >= 86400)
            /\ res.tag = "return" =>
                  /\ res.val.hour \in 0..23
                  /\ res.val.minute \in 0..59
                  /\ res.val.second \in 0..59
                  /\ res.val.hour * 3600 + res.val.minute * 60 + res.val.second = n
                  /\ res.val = [hour |-> n \div 3600, minute |-> (n \div 60) % 60,
                                second |-> n % 60]

C10_Witness ==
    /\ pc = "coerced"
    /\ any_time = PyInt(86399)
    /\ res = Return([hour |-> 23, minute |-> 59, second |-> 59])

----------------------------------------------------------------------------
(* Week enablement: cses/utils.py and cses/structures.py *)

\* Rounding the weeks up instead of down.
week_num_wrong(start, d) == (d - start + 6) \div 7 + 1

\* week_num: (day - start_day).days // 7 + 1, // the floor division.
week_num(start, d) == (d - start) \div 7 + 1

\* WeekType
WeekType == {"all", "odd", "even"}

\* The two parities exchanged.
is_enabled_on_week_wrong(self, w) ==
    CASE self.weeks = "all" -> TRUE
      [] self.weeks = "odd" -> w % 2 = 0
      [] self.weeks = "even" -> w % 2 = 1

\* SingleDaySchedule.is_enabled_on_week: the dict literal indexed by
\* self.weeks. % gives a result in 0..1 for every integer, as Python's does.
is_enabled_on_week(self, w) ==
    CASE self.weeks = "all" -> TRUE
      [] self.weeks = "odd" -> w % 2 = 1
      [] self.weeks = "even" -> w % 2 = 0

\* date.isoweekday(): 1 for Monday; ordinal 1 (0001-01-01) is a Monday.
isoweekday(d) == ((d - 1) % 7) + 1

\* A variant that also asks for the weekday of enable_day.
is_enabled_on_day_wrong(self, start, d) ==
    /\ isoweekday(d) = self.enable_day
    /\ is_enabled_on_week(self, week_num(start, d))

\* SingleDaySchedule.is_enabled_on_day
is_enabled_on_day(self, start, d) ==
    is_enabled_on_week(self, week_num(start, d))

MaxOrdinal == 15
MaxWeek == 6

Days == 1..MaxOrdinal

\* The fields of a SingleDaySchedule the queries read or could read; name
\* and classes take no part in them.
Schedules == [weeks : WeekType, enable_day : {1, 3, 7}]

TimeIdle == any_time = None /\ res = NotCalled /\ dumped = NotCalled

InitWeek ==
    /\ pc = "week_start"
    /\ start_day \in Days
    /\ day = start_day
    /\ schedule \in Schedules
    /\ week = 0
    /\ enabled = FALSE
    /\ TimeIdle
    /\ DocIdle

\* week = week_num(start_day, d)
WeekNum(d) ==
    /\ day' = d
    /\ week' = week_num(start_day, d)
    /\ pc' = "week_num"
    /\ UNCHANGED <<start_day, schedule, enabled, timeVars, docVars>>

\* enabled = schedule.is_enabled_on_week(w)
IsEnabledOnWeek(w) ==
    /\ week' = w
    /\ enabled' = is_enabled_on_week(schedule, w)
    /\ pc' = "on_week"
    /\ UNCHANGED <<start_day, day, schedule, timeVars, docVars>>

\* enabled = schedule.is_enabled_on_day(start_day, d)
IsEnabledOnDay(d) ==
    /\ day' = d
    /\ enabled' = is_enabled_on_day(schedule, start_day, d)
    /\ pc' = "on_day"
    /\ UNCHANGED <<start_day, schedule, week, timeVars, docVars>>

NextWeek ==
    \/ \E d \in Days : WeekNum(d)
    \/ \E w \in 1..MaxWeek : IsEnabledOnWeek(w)
    \/ \E d \in Days : IsEnabledOnDay(d)

SpecWeek == InitWeek /\ [][NextWeek]_vars

----------------------------------------------------------------------------
(* Claims about week enablement *)

IsOdd(w) == \E k \in (0 - MaxOrdinal - MaxWeek)..(MaxOrdinal + MaxWeek) : w = 2 * k + 1
IsEven(w) == \E k \in (0 - MaxOrdinal - MaxWeek)..(MaxOrdinal + MaxWeek) : w = 2 * k

\* C3: for a positive week index w, is_enabled_on_week answers true exactly
\* when w is odd on a schedule with weeks = odd, exactly when w is even with
\* weeks = even, and always with weeks = all.
C3_WeekParity ==
    (pc = "on_week" /\ week >= 1) =>
        /\ schedule.weeks = "odd" => (enabled <=> IsOdd(week))
        /\ schedule.weeks = "even" => (enabled <=> IsEven(week))
        /\ schedule.weeks = "all" => enabled

C3_Witness ==
    /\ pc = "on_week"
    /\ schedule.weeks = "odd"
    /\ week = 3
    /\ enabled

\* C4: week_num(start, day) is floor((day - start) / 7) + 1: 1 for day =
\* start and for start + 6 days, 2 for start + 7 days; and from one call to
\* the next it does not decrease when the day does not.
C4_WeekNumber ==
    /\ [](pc = "week_num" =>
            /\ 7 * (week - 1) <= day - start_day
            /\ day - start_day < 7 * week
            /\ day = start_day => week = 1
            /\ day = start_day + 6 => week = 1
            /\ day = start_day + 7 => week = 2)
    /\ [][(pc = "week_num" /\ pc' = "week_num" /\ day <= day') => week <= week']_vars

C4_Witness ==
    /\ pc = "week_num"
    /\ day = start_day + 7
    /\ week = 2

\* C9: is_enabled_on_day(schedule, start_day, day) is is_enabled_on_week of
\* week_num(start_day, day): it is decided by schedule.weeks and by the
\* number of days from start_day to day alone, and a schedule that differs
\* in enable_day only gets the same answer.
C9_EnabledOnDayIgnoresWeekday ==
    pc = "on_day" =>
        LET w == week_num(start_day, day)
        IN  /\ enabled = is_enabled_on_week(schedule, w)
            /\ schedule.weeks = "all" => enabled
            /\ schedule.weeks = "odd" => (enabled <=> IsOdd(w))
            /\ schedule.weeks = "even" => (enabled <=> IsEven(w))
            /\ \A e \in 1..7 :
                  is_enabled_on_day([schedule EXCEPT !.enable_day = e], start_day, day)
                      = enabled

C9_Witness ==
    /\ pc = "on_day"
    /\ schedule.weeks = "odd"
    /\ isoweekday(day) /= schedule.enable_day
    /\ day = start_day + 3
    /\ enabled

----------------------------------------------------------------------------
(* Parser and generator: cses/__init__.py *)

EmptyDict == [k \in {} |-> None]

\* d.get(k, default)
Get(d, k, default) == IF k \in DOMAIN d THEN d[k] ELSE default

\* "not d" for what yaml.safe_load gives at the top of a file read here:
\* None (an empty file) or a mapping.
Falsy(d) == d = None \/ DOMAIN d = {}

\* subject_info of _parse_data
subject_info(subject) ==
    [name |-> subject["name"],
     simplified_name |-> Get(subject, "simplified_name", None),
     teacher |-> Get(subject, "teacher", None),
     room |-> Get(subject, "room", None)]

\* class_info of _parse_data
class_info(cls) ==
    [subject |-> cls["subject"],
     start_time |-> cls["start_time"],
     end_time |-> cls["end_time"]]

\* schedule_info of _parse_data, its classes appended in the order read.
schedule_info(sch) ==
    LET classes_data == Get(sch, "classes", <<>>)
    IN  [name |-> sch["name"],
         enable_day |-> sch["enable_day"],
         weeks |-> sch["weeks"],
         classes |-> [i \in 1..Len(classes_data) |-> class_info(classes_data[i])]]

\* CSESParser.__init__ up to _load_file: the fields before _parse_data.
NewParser == [version |-> None, subjects |-> <<>>, schedules |-> <<>>]

\* CSESParser._parse_data on self.data = d: the parser's fields after it.
\* Nothing in it raises for a tree whose entries carry their required keys.
_parse_data(d) ==
    IF Falsy(d) THEN NewParser
    ELSE LET subjects_data == Get(d, "subjects", <<>>)
             schedules_data == Get(d, "schedules", <<>>)
         IN  [version |-> Get(d, "version", PyInt(1)),
              subjects |-> [i \in 1..Len(subjects_data) |-> subject_info(subjects_data[i])],
              schedules |-> [i \in 1..Len(schedules_data) |-> schedule_info(schedules_data[i])]]

\* CSESGenerator.__init__
CSESGenerator(version) == [version |-> version, subjects |-> <<>>, schedules |-> <<>>]

\* CSESGenerator.add_subject
add_subject(self, name, simplified_name, teacher, room) ==
    [self EXCEPT !.subjects =
        Append(@, [name |-> name, simplified_name |-> simplified_name,
                   teacher |-> teacher, room |-> room])]

\* insert(0, schedule) in place of append(schedule).
add_schedule_wrong(self, name, enable_day, weeks, classes) ==
    [self EXCEPT !.schedules =
        <<[name |-> name, enable_day |-> enable_day, weeks |-> weeks,
           classes |-> classes]>> \o @]

\* CSESGenerator.add_schedule
add_schedule(self, name, enable_day, weeks, classes) ==
    [self EXCEPT !.schedules =
        Append(@, [name |-> name, enable_day |-> enable_day, weeks |-> weeks,
                   classes |-> classes])]

\* CSESGenerator.generate_cses_data
generate_cses_data(self) ==
    [version |-> self.version, subjects |-> self.subjects, schedules |-> self.schedules]

(* The trees the parser is given. *)

MaxEntries == 4

Math == <<"M", "a", "t", "h">>
History == <<"H", "i", "s", "t", "o", "r", "y">>

SubjectEntries ==
    {[name |-> PyStr(Math), simplified_name |-> PyStr(<<"M">>),
      teacher |-> PyStr(<<"A">>), room |-> PyStr(<<"1", "0", "1">>)],
     [name |-> PyStr(Math)],
     [name |-> PyStr(History), teacher |-> PyStr(<<"B">>)]}

T0800 == <<"0", "8", ":", "0", "0", ":", "0", "0">>
T0845 == <<"0", "8", ":", "4", "5", ":", "0", "0">>
T0900 == <<"0", "9", ":", "0", "0", ":", "0", "0">>

\* A class in time order; one that ends before it starts; one that starts,
\* as second of the day 8 * 3600, when it ends.
ClassEntries ==
    {[subject |-> PyStr(Math), start_time |-> PyStr(T0800), end_time |-> PyStr(T0845)],
     [subject |-> PyStr(History), start_time |-> PyStr(T0900), end_time |-> PyStr(T0800)],
     [subject |-> PyStr(Math), start_time |-> PyInt(8 * 3600), end_time |-> PyStr(T0800)]}

ScheduleHeads ==
    {[name |-> PyStr(<<"M", "o", "n">>), enable_day |-> PyStr(<<"m", "o", "n">>),
      weeks |-> PyStr(<<"a", "l", "l">>)],
     [name |-> PyStr(<<"T", "u", "e">>), enable_day |-> PyStr(<<"t", "u", "e">>),
      weeks |-> PyStr(<<"o", "d", "d">>)]}

\* The schedule entries with k classes; one with none may lack the key.
ScheduleEntries(k) ==
    {h @@ [classes |-> cl] : h \in ScheduleHeads, cl \in [1..k -> ClassEntries]}
        \cup (IF k = 0 THEN ScheduleHeads ELSE {})

\* The lists of schedule entries of at most b entries, classes counted.
RECURSIVE ScheduleLists(_)
ScheduleLists(b) ==
    {<<>>} \cup
    UNION {{<<sch>> \o rest : sch \in ScheduleEntries(k), rest \in ScheduleLists(b - 1 - k)} :
           k \in 0..(b - 1)}

\* A list under its key; an empty one may also be absent.
ListPart(k, l) == {[x \in {k} |-> l]} \cup (IF l = <<>> THEN {EmptyDict} ELSE {})

VersionParts == {EmptyDict, [version |-> PyInt(1)], [version |-> PyInt(2)]}

\* d is None (an empty file) or a mapping of at most MaxEntries entries.
IsTree(d) ==
    \/ d = None
    \/ \E ss \in SeqsUpTo(SubjectEntries, MaxEntries) :
         \E sl \in ScheduleLists(MaxEntries - Len(ss)) :
            \E v \in VersionParts, sp \in ListPart("subjects", ss),
               sc \in ListPart("schedules", sl) :
                d = v @@ sp @@ sc

InitDoc ==
    /\ pc = "doc_start"
    /\ IsTree(data)
    /\ parser = NotCalled
    /\ generator = NotCalled
    /\ cses_data = NotCalled
    /\ parser2 = NotCalled
    /\ TimeIdle
    /\ WeekIdle

\* parser = CSESParser(file_path), the file holding data.
Parse ==
    /\ pc = "doc_start"
    /\ parser' = Return(_parse_data(data))
    /\ pc' = "parsed"
    /\ UNCHANGED <<data, generator, cses_data, parser2, timeVars, weekVars>>

\* generator = CSESGenerator(version=parser.version)
NewGenerator ==
    /\ pc = "parsed"
    /\ generator' = CSESGenerator(parser.val.version)
    /\ pc' = "exporting"
    /\ UNCHANGED <<data, parser, cses_data, parser2, timeVars, weekVars>>

\* generator.add_subject(**subject) for the parser's next subject
AddSubject ==
    /\ pc = "exporting"
    /\ Len(generator.subjects) < Len(parser.val.subjects)
    /\ LET subject == parser.val.subjects[Len(generator.subjects) + 1]
       IN  generator' = add_subject(generator, subject.name, subject.simplified_name,
                                    subject.teacher, subject.room)
    /\ UNCHANGED <<pc, data, parser, cses_data, parser2, timeVars, weekVars>>

\* generator.add_schedule(**schedule) for the parser's next schedule
AddSchedule ==
    /\ pc = "exporting"
    /\ Len(generator.schedules) < Len(parser.val.schedules)
    /\ LET sch == parser.val.schedules[Len(generator.schedules) + 1]
       IN  generator' = add_schedule(generator, sch.name, sch.enable_day, sch.weeks,
                                     sch.classes)
    /\ UNCHANGED <<pc, data, parser, cses_data, parser2, timeVars, weekVars>>

\* cses_data = generator.generate_cses_data(), every subject and schedule added
Generate ==
    /\ pc = "exporting"
    /\ Len(generator.subjects) = Len(parser.val.subjects)
    /\ Len(generator.schedules) = Len(parser.val.schedules)
    /\ cses_data' = generate_cses_data(generator)
    /\ pc' = "generated"
    /\ UNCHANGED <<data, parser, generator, parser2, timeVars, weekVars>>

\* parser2 = CSESParser(file_path2), the file holding cses_data.
Reparse ==
    /\ pc = "generated"
    /\ parser2' = Return(_parse_data(cses_data))
    /\ pc' = "reparsed"
    /\ UNCHANGED <<data, parser, generator, cses_data, timeVars, weekVars>>

NextDoc ==
    \/ Parse
    \/ NewGenerator
    \/ AddSubject
    \/ AddSchedule
    \/ Generate
    \/ Reparse

SpecDoc == InitDoc /\ [][NextDoc]_vars

----------------------------------------------------------------------------
(* Claims about building and exporting a document *)

\* The class entries of tree d, and the names of its subjects.
TreeClasses(d) ==
    IF Falsy(d) THEN {}
    ELSE LET sl == Get(d, "schedules", <<>>)
         IN  UNION {{Get(sl[i], "classes", <<>>)[j] :
                        j \in 1..Len(Get(sl[i], "classes", <<>>))} : i \in 1..Len(sl)}

TreeSubjectNames(d) ==
    IF Falsy(d) THEN {}
    ELSE LET ss == Get(d, "subjects", <<>>) IN {ss[i]["name"] : i \in 1..Len(ss)}

\* The classes of a built document.
DocClasses(doc) ==
    UNION {{doc.schedules[i].classes[j] : j \in 1..Len(doc.schedules[i].classes)} :
           i \in 1..Len(doc.schedules)}

SecondOfDay(t) == t.hour * 3600 + t.minute * 60 + t.second

\* start_time < end_time, both read as times of day.
InTimeOrder(cls) ==
    LET a == ensure_time(cls["start_time"])
        b == ensure_time(cls["end_time"])
    IN  /\ a.tag = "return" /\ b.tag = "return"
        /\ SecondOfDay(a.val) < SecondOfDay(b.val)

\* C5: building a document from a tree in which a class names a subject
\* that is not in the tree's subjects fails with UnknownSubject and gives no
\* parser holding the parsed schedules.
C5_UnknownSubjectRejected ==
    (pc /= "doc_start" /\ \E cls \in TreeClasses(data) :
                              cls["subject"] \notin TreeSubjectNames(data)) =>
        /\ parser.tag = "raise"
        /\ parser.exc = "UnknownSubject"

\* C6: exporting a built document through a generator (add_subject and
\* add_schedule for each of its subjects and schedules, then
\* generate_cses_data) and building a document from that tree again gives
\* an equal document: the same version, the same subjects with the same
\* fields, the same schedules in the same order, each with its classes in
\* the same order.
C6_RoundTrip ==
    pc = "reparsed" =>
        /\ parser2.tag = "return"
        /\ parser2.val.version = parser.val.version
        /\ Len(parser2.val.subjects) = Len(parser.val.subjects)
        /\ \A i \in 1..Len(parser.val.subjects) :
              parser2.val.subjects[i] = parser.val.subjects[i]
        /\ Len(parser2.val.schedules) = Len(parser.val.schedules)
        /\ \A i \in 1..Len(parser.val.schedules) :
              LET a == parser.val.schedules[i]
                  b == parser2.val.schedules[i]
              IN  /\ b.name = a.name /\ b.enable_day = a.enable_day /\ b.weeks = a.weeks
                  /\ Len(b.classes) = Len(a.classes)
                  /\ \A j \in 1..Len(a.classes) : b.classes[j] = a.classes[j]

C6_Witness ==
    /\ pc = "reparsed"
    /\ Len(parser.val.subjects) = 1
    /\ Len(parser.val.schedules) = 2
    /\ parser.val.schedules[1].name /= parser.val.schedules[2].name
    /\ Len(parser.val.schedules[1].classes) = 1
    /\ parser2 = parser

\* C7: every document built has version 1: a tree whose version is present
\* and is not 1 fails with UnsupportedVersion, and no build that succeeds,
\* the one from an empty tree included, has another version.
C7_VersionIsOne ==
    pc /= "doc_start" =>
        /\ parser.tag = "return" => parser.val.version = PyInt(1)
        /\ (~Falsy(data) /\ Get(data, "version", PyInt(1)) /= PyInt(1)) =>
              (parser.tag = "raise" /\ parser.exc = "UnsupportedVersion")

\* C8: building a document with a class whose start_time is not before its
\* end_time fails with InvalidTimeRange; so every class of a built document
\* has start_time < end_time.
C8_TimeRangeRejected ==
    pc /= "doc_start" =>
        /\ (\E cls \in TreeClasses(data) : ~InTimeOrder(cls)) =>
              (parser.tag = "raise" /\ parser.exc = "InvalidTimeRange")
        /\ parser.tag = "return" =>
              \A cls \in DocClasses(parser.val) : InTimeOrder(cls)

====
